---- MODULE Spec2Model ----
(***************************************************************************)
(* OAuth2 authorization-code-with-PKCE login, token refresh, status and    *)
(* logout of the command line tool (cmd/auth.go), together with the local  *)
(* callback server (package callback) and the token expiry check (package  *)
(* types).  Time is counted in whole seconds.                              *)
(***************************************************************************)
EXTENDS Integers, Sequences, FiniteSets, TLC

VARIABLES
    now,       \* the wall clock, in seconds
    ticks,     \* number of clock advances so far
    ops,       \* number of command invocations so far
    nreq,      \* number of /callback requests sent so far
    tokens,    \* credential store: site -> TokenSet or Nil
    creds,     \* credential store: site -> ClientCredentials or Nil
    provider,  \* identity provider: per site, registrations
               \* since the last completed logout and those of them whose credentials were not saved
    stale,     \* site -> the provider rejected a refresh of the stored, expired TokenSet
    pc,        \* position of the running command
    lg,        \* locals of runAuthLogin
    srv,       \* callback server: nil, serving, bindfailed, closed
    resultCh,  \* Server.resultCh, a buffered channel
    reqs,      \* /callback requests of the listener, in order of arrival
    hist,      \* what the running invocation did so far
    ret        \* what the invocation returned

vars == <<now, ticks, ops, nreq, tokens, creds, provider, stale, pc, lg, srv,
          resultCh, reqs, hist, ret>>

(* ------------------------------ bounds --------------------------------- *)
\* number of clock advances in one behaviour
MaxTicks == 1
\* number of command invocations (login, status, refresh, logout) in one behaviour
MaxOps == 2
\* number of /callback requests sent in one behaviour
MaxRequests == 3

(* ------------------------- program constants --------------------------- *)
\* 5 * time.Minute, the expiry buffer of TokenSet.IsExpired, in seconds
ExpiryBuffer == 300
\* 5 * time.Minute, the timeout runAuthLogin passes to WaitForCallback, in seconds
CallbackTimeout == 300
\* capacity of resultCh: make(chan CallbackResult, 1)
\* an unbuffered channel
ChanCapUnbuffered == Len(<<>>)
ChanCap == 1

(* ------------------------- input domains ------------------------------- *)
\* site := cfg.Site: the site the commands are run for, and the sites of the store
cfgSite == "datadoghq.com"
Sites == {cfgSite, "datadoghq.eu"}
\* ports the operating system may hand out for 127.0.0.1:0
FirstPort == 49152
Ports == {FirstPort, FirstPort + 1}
\* amounts of seconds by which the clock advances in one step: one second short of,
\* exactly and one second over the 3300 seconds after which a token of 3600 seconds
\* is inside the expiry buffer
TickSteps == {3299, 3300, 3301}
\* expires_in values the provider answers with
ExpiresInSet == {3600, 60}
\* base64.RawURLEncoding.EncodedLen(n): the characters that encode n bytes, unpadded
EncodedLen(n) == (n * 4 + 2) \div 3

\* the length of what generateRandomString(length) returns: numBytes random bytes,
\* encoded, cut to length when longer
RandomStringLengthBytes(length) == (length * 3) \div 4
RandomStringLength(length) ==
    LET numBytes == (length * 3) \div 4
    IN  IF EncodedLen(numBytes) > length THEN length ELSE EncodedLen(numBytes)

\* generateRandomString(128) for the verifier, generateRandomString(32) for the state;
\* the shortest verifier RFC 7636 allows, the size of a SHA-256 digest
VerifierLength == 128
StateLength == 32
MinVerifierLength == 43
DigestSize == 32

\* oauth.GenerateState and the verifier of oauth.GeneratePKCEChallenge: random
\* strings, fresh in every login attempt n; Forged is a state no attempt generated
\* each is a triple: what it is, the attempt whose random bytes it encodes, its length
GenerateStateFixed(n) == <<"state", 1, RandomStringLength(StateLength)>>
GenerateState(n) == <<"state", n, RandomStringLength(StateLength)>>
GenerateVerifierShort(n) == <<"verifier", n, RandomStringLength(StateLength)>>
GenerateVerifier(n) == <<"verifier", n, RandomStringLength(VerifierLength)>>
Forged == <<"state", 0, StateLength>>

\* len(s) of a string of the model, the empty string being <<>>
StrLen(x) == IF x = <<>> THEN 0 ELSE x[3]

\* sha256.New, h.Write(b), h.Sum(nil): the 32-byte digest of b
Sum256(b) == [digest |-> "sha256", of |-> b, size |-> DigestSize]

\* base64.StdEncoding.EncodeToString: the standard alphabet, padded with = to a
\* multiple of four characters
StdEncodeToString(d) ==
    [encoding |-> "base64", padding |-> TRUE, of |-> d, len |-> 4 * ((d.size + 2) \div 3)]

\* base64.RawURLEncoding.EncodeToString: the URL-safe alphabet, no padding
EncodeToString(d) ==
    [encoding |-> "base64url", padding |-> FALSE, of |-> d, len |-> EncodedLen(d.size)]

\* a challenge made with the padded standard encoding
GeneratePKCEChallengePadded(n) ==
    [Verifier |-> GenerateVerifier(n),
     Challenge |-> StdEncodeToString(Sum256(GenerateVerifier(n))), Method |-> "S256"]

\* oauth.GeneratePKCEChallenge
GeneratePKCEChallenge(n) ==
    [Verifier |-> GenerateVerifier(n),
     Challenge |-> EncodeToString(Sum256(GenerateVerifier(n))), Method |-> "S256"]

\* the nil pointer
Nil == [nil |-> TRUE]
NoError == "nil"

(* --------------------------- package types ----------------------------- *)
\* time.Now().Add(5 * time.Minute).After(time.Unix(IssuedAt+ExpiresIn, 0)) at instant t
WrongIsExpiredAt(tok, t) == t > tok.IssuedAt + tok.ExpiresIn
\* an expiry test that looked at the five minutes before the expiry instant only would
\* stop reporting a TokenSet as expired once the instant itself has passed
IsExpiredAtInsideBufferOnly(tok, t) ==
    /\ t + ExpiryBuffer > tok.IssuedAt + tok.ExpiresIn
    /\ t <= tok.IssuedAt + tok.ExpiresIn
IsExpiredAt(tok, t) == t + ExpiryBuffer > tok.IssuedAt + tok.ExpiresIn

IsExpired(tok) == IsExpiredAt(tok, now)

\* TokenSet as stored; token values are numbers, 0 stands for the empty string
TokenSet(access, refresh, expiresIn, issuedAt, clientID) ==
    [AccessToken |-> access, RefreshToken |-> refresh, TokenType |-> "Bearer",
     ExpiresIn |-> expiresIn, IssuedAt |-> issuedAt, ClientID |-> clientID]

\* ClientCredentials as stored
ClientCredentials(clientID, uris, site) ==
    [ClientID |-> clientID, RedirectURIs |-> uris, RegisteredAt |-> now, Site |-> site]

(* -------------------------- package callback --------------------------- *)
CallbackResult(code, state, err) ==
    [Code |-> code, State |-> state, Error |-> err,
     ErrorDescription |-> IF err = "" THEN "" ELSE "denied by user"]

\* fmt.Sprintf("http://127.0.0.1:%d/callback", s.port)
RedirectURI(port) == [host |-> "127.0.0.1", port |-> port, path |-> "/callback"]

\* Server.Stop: nil server is left alone, otherwise Shutdown closes the listener
StopNoop(s) == s
\* a Stop that serves again when called on a listener already shut down
StopRestarts(s) == IF s = "closed" THEN "serving" ELSE "closed"
Stop(s) == IF s = "nil" THEN s ELSE "closed"

\* the states of a callback Server: not started (s.server is nil), accepting requests,
\* started with ListenAndServe failed, shut down
ListenerStates == {"nil", "serving", "bindfailed", "closed"}

(* ---------------------------- package dcr ------------------------------ *)
DCRRedirectPorts == {8000, 8080, 8888, 9000}
\* fmt.Sprintf("http://127.0.0.1:%d/oauth/callback", port) for each port
GetRedirectURIs ==
    {[host |-> "127.0.0.1", port |-> p, path |-> "/oauth/callback"] : p \in DCRRedirectPorts}

\* Client.Register: the request carries redirect_uris: [redirect_uri]
Register(redirectURI, site) ==
    ClientCredentials(ops, {redirectURI}, site)

\* Client.ExchangeCode / Client.RefreshToken: the TokenSet built from a token response
TokenResponse(n, withRefresh, expiresIn, c) ==
    TokenSet(<<"access", n>>, IF withRefresh THEN <<"refresh", n>> ELSE <<>>,
             expiresIn, now, c.ClientID)

(* --------------------------- package oauth ----------------------------- *)
\* Client.ValidateCallback(code, state, expectedState)
ValidateCallback(code, state, expected) ==
    IF state # expected THEN "state parameter mismatch (CSRF protection)"
    ELSE IF code = "" THEN "missing authorization code"
    ELSE NoError

\* Client.BuildAuthorizationURL: the query parameters of the authorization URL
BuildAuthorizationURL(clientID, redirectURI, state, pkce) ==
    [client_id |-> clientID, redirect_uri |-> redirectURI, state |-> state,
     code_challenge |-> pkce.Challenge, code_challenge_method |-> pkce.Method]

(* ------------------------------ state ---------------------------------- *)
\* what one invocation did: provider calls, store writes and deletions attempted,
\* start of the listener; before: the entries of cfg.Site when the invocation began;
\* obtained: the TokenSet ExchangeCode or RefreshToken returned
HistInit ==
    [op |-> "none", register |-> 0, exchange |-> 0, refresh |-> 0, issued |-> 0,
     waited |-> 0, savedTokens |-> FALSE, savedCreds |-> FALSE, started |-> FALSE,
     exchangeURI |-> Nil, exchangeVerifier |-> <<>>, attempted |-> {}, before |-> Nil,
     obtained |-> Nil, notFound |-> 0, early |-> 0]

HistOf(op) ==
    [HistInit EXCEPT !.op = op,
                     !.before = [tokens |-> tokens[cfgSite], creds |-> creds[cfgSite]]]

\* locals of runAuthLogin
LgInit ==
    [site |-> "", creds |-> Nil, port |-> 0, redirectURI |-> Nil,
     state |-> <<>>, verifier |-> <<>>, pkce |-> Nil, authURL |-> Nil,
     browserErr |-> NoError, printed |-> <<>>, result |-> Nil]

\* detail: what the error message is formatted from; output: what status printed
Returned(op, site, err, status) ==
    [op |-> op, site |-> site, err |-> err, status |-> status, detail |-> <<>>,
     output |-> Nil]

NotReturned == Returned("none", "", NoError, "")

\* what earlier runs of the commands may have left in the store for a site: nothing,
\* the ClientCredentials of a registration, or these and a TokenSet issued at instant 0;
\* for a site other than cfg.Site, what one successful login stores
StoredBefore(s) ==
    LET c == [ClientID |-> 0, RedirectURIs |-> {RedirectURI(FirstPort)},
              RegisteredAt |-> 0, Site |-> s]
        t(withRefresh, e) ==
            TokenSet(<<"access", 0>>, IF withRefresh THEN <<"refresh", 0>> ELSE <<>>,
                     e, 0, c.ClientID)
    IN  IF s = cfgSite
        THEN {[creds |-> Nil, tokens |-> Nil], [creds |-> c, tokens |-> Nil]}
             \cup {[creds |-> c, tokens |-> t(withRefresh, e)] :
                      withRefresh \in BOOLEAN, e \in ExpiresInSet}
        ELSE {[creds |-> c, tokens |-> t(TRUE, 3600)]}

Init ==
    /\ now = 0
    /\ ticks = 0
    /\ ops = 0
    /\ nreq = 0
    /\ \E st \in [Sites -> UNION {StoredBefore(s) : s \in Sites}] :
          /\ \A s \in Sites : st[s] \in StoredBefore(s)
          /\ tokens = [s \in Sites |-> st[s].tokens]
          /\ creds = [s \in Sites |-> st[s].creds]
    /\ provider = [regs |-> [s \in Sites |-> IF creds[s] = Nil THEN 0 ELSE 1],
                   lost |-> [s \in Sites |-> 0]]
    /\ stale = [s \in Sites |-> FALSE]
    /\ pc = "idle"
    /\ lg = LgInit
    /\ srv = "nil"
    /\ resultCh = <<>>
    /\ reqs = <<>>
    /\ hist = HistInit
    /\ ret = NotReturned

\* a browser that cannot be opened, a page that cannot be rendered, a request to a
\* path other than /callback and requests other than the provider's one redirect are
\* explored in the first invocation, made before the clock advances: login reads the
\* clock for nothing but the stamps of what it stores, and a listener lives and dies
\* with its invocation
FaultsExplored == ticks = 0 /\ ops <= 1

\* the clock advances between invocations; the commands read it only against the
\* stored TokenSet of cfg.Site
Tick(d) ==
    /\ pc = "idle"
    /\ tokens[cfgSite] # Nil
    /\ ticks < MaxTicks
    /\ ops < MaxOps
    /\ now' = now + d
    /\ ticks' = ticks + 1
    /\ UNCHANGED <<ops, nreq, tokens, creds, provider, stale, pc, lg, srv,
                   resultCh, reqs, hist, ret>>

\* the process of the command exits after the command returned; the credential
\* store, the provider and the clock are all that outlives it
Exit ==
    /\ pc = "returned"
    /\ pc' = "idle"
    /\ lg' = LgInit
    /\ srv' = "nil"
    /\ resultCh' = <<>>
    /\ reqs' = <<>>
    /\ hist' = HistInit
    /\ ret' = NotReturned
    /\ UNCHANGED <<now, ticks, ops, nreq, tokens, creds, provider, stale>>

\* an invocation of a command that runs to its return without waiting for anything
InvokeOutput(op, site, err, status, output) ==
    /\ pc = "idle"
    /\ ops < MaxOps
    /\ ops' = ops + 1
    /\ pc' = "returned"
    /\ ret' = [Returned(op, site, err, status) EXCEPT !.output = output]
    /\ UNCHANGED <<now, ticks, nreq, lg, srv, resultCh, reqs>>

Invoke(op, site, err, status) == InvokeOutput(op, site, err, status, Nil)

(* ---------------------------- runAuthStatus ---------------------------- *)
\* storage.NewFileStorage or store.LoadTokens fails
StatusLoadFails(s) ==
    /\ Invoke("status", s, "failed to load tokens", "")
    /\ hist' = HistOf("status")
    /\ UNCHANGED <<tokens, creds, provider, stale>>

StatusNotAuthenticated(s) ==
    /\ tokens[s] = Nil
    /\ Invoke("status", s, NoError, "not authenticated")
    /\ hist' = HistOf("status")
    /\ UNCHANGED <<tokens, creds, provider, stale>>

\* the status map runAuthStatus prints as JSON and the lines it prints before it,
\* for the TokenSet tok at instant t: expired := tokens.IsExpired()
StatusOutputAlwaysAuthenticated(tok, t, site) ==
    [authenticated |-> TRUE, site |-> site,
     expires_at |-> tok.IssuedAt + tok.ExpiresIn, token_type |-> tok.TokenType,
     has_refresh |-> tok.RefreshToken # <<>>,
     status |-> IF IsExpiredAt(tok, t) THEN "expired" ELSE "valid",
     expires_in |-> IF IsExpiredAt(tok, t) THEN <<>>
                    ELSE <<tok.IssuedAt + tok.ExpiresIn - t>>]
StatusOutputWithToken(tok, t, site) ==
    [authenticated |-> ~IsExpiredAt(tok, t), site |-> site,
     expires_at |-> tok.IssuedAt + tok.ExpiresIn, token_type |-> tok.TokenType,
     has_refresh |-> tok.RefreshToken # <<>>,
     status |-> IF IsExpiredAt(tok, t) THEN "expired" ELSE "valid",
     expires_in |-> IF IsExpiredAt(tok, t) THEN <<>>
                    ELSE <<tok.IssuedAt + tok.ExpiresIn - t>>,
     access_token |-> tok.AccessToken]
StatusOutput(tok, t, site) ==
    [authenticated |-> ~IsExpiredAt(tok, t), site |-> site,
     expires_at |-> tok.IssuedAt + tok.ExpiresIn, token_type |-> tok.TokenType,
     has_refresh |-> tok.RefreshToken # <<>>,
     status |-> IF IsExpiredAt(tok, t) THEN "expired" ELSE "valid",
     expires_in |-> IF IsExpiredAt(tok, t) THEN <<>>
                    ELSE <<tok.IssuedAt + tok.ExpiresIn - t>>]

\* a status that tidied the store up would delete the TokenSet it reports as expired
StatusReportDropsExpired(s) ==
    /\ tokens[s] # Nil
    /\ InvokeOutput("status", s, NoError, StatusOutput(tokens[s], now, s).status,
                    StatusOutput(tokens[s], now, s))
    /\ hist' = HistOf("status")
    /\ tokens' = IF IsExpired(tokens[s]) THEN [tokens EXCEPT ![s] = Nil] ELSE tokens
    /\ UNCHANGED <<creds, provider, stale>>

StatusReport(s) ==
    /\ tokens[s] # Nil
    /\ InvokeOutput("status", s, NoError, StatusOutput(tokens[s], now, s).status,
                    StatusOutput(tokens[s], now, s))
    /\ hist' = HistOf("status")
    /\ UNCHANGED <<tokens, creds, provider, stale>>

runAuthStatus(s) ==
    \/ StatusLoadFails(s)
    \/ StatusNotAuthenticated(s)
    \/ StatusReport(s)

(* ---------------------------- runAuthLogout ---------------------------- *)
\* store.DeleteTokens(site) / store.DeleteClientCredentials(site) without a storage
\* error: the entry of the site is gone afterwards, whether or not there was one
Delete(store, s) == [store EXCEPT ![s] = Nil]

\* a logout that deletes the ClientCredentials first and then fails on the tokens
LogoutCredentialsFirst(s) ==
    /\ Invoke("logout", s, "failed to delete tokens", "")
    /\ hist' = [HistOf("logout") EXCEPT !.attempted = {"credentials", "tokens"}]
    /\ creds' = Delete(creds, s)
    /\ UNCHANGED <<tokens, provider, stale>>

\* store.DeleteTokens fails: runAuthLogout returns before DeleteClientCredentials
LogoutDeleteTokensFails(s) ==
    /\ Invoke("logout", s, "failed to delete tokens", "")
    /\ hist' = [HistOf("logout") EXCEPT !.attempted = {"tokens"}]
    /\ UNCHANGED <<tokens, creds, provider, stale>>

LogoutDeleteCredentialsFails(s) ==
    /\ Invoke("logout", s, "failed to delete client credentials", "")
    /\ hist' = [HistOf("logout") EXCEPT !.attempted = {"tokens", "credentials"}]
    /\ tokens' = Delete(tokens, s)
    /\ stale' = [stale EXCEPT ![s] = FALSE]
    /\ UNCHANGED <<creds, provider>>

LogoutOkKeepsCredentials(s) ==
    /\ Invoke("logout", s, NoError, "")
    /\ hist' = [HistOf("logout") EXCEPT !.attempted = {"tokens", "credentials"}]
    /\ tokens' = Delete(tokens, s)
    /\ creds' = creds
    /\ stale' = [stale EXCEPT ![s] = FALSE]
    /\ provider' = [provider EXCEPT !.regs[s] = 0, !.lost[s] = 0]
\* a logout that clears the store
LogoutOkAllSites(s) ==
    /\ Invoke("logout", s, NoError, "")
    /\ hist' = [HistOf("logout") EXCEPT !.attempted = {"tokens", "credentials"}]
    /\ tokens' = [x \in Sites |-> Nil]
    /\ creds' = [x \in Sites |-> Nil]
    /\ stale' = [stale EXCEPT ![s] = FALSE]
    /\ provider' = [provider EXCEPT !.regs[s] = 0, !.lost[s] = 0]
LogoutOk(s) ==
    /\ Invoke("logout", s, NoError, "")
    /\ hist' = [HistOf("logout") EXCEPT !.attempted = {"tokens", "credentials"}]
    /\ tokens' = Delete(tokens, s)
    /\ creds' = Delete(creds, s)
    /\ stale' = [stale EXCEPT ![s] = FALSE]
    /\ provider' = [provider EXCEPT !.regs[s] = 0, !.lost[s] = 0]

runAuthLogout(s) ==
    \/ LogoutDeleteTokensFails(s)
    \/ LogoutDeleteCredentialsFails(s)
    \/ LogoutOk(s)

(* ---------------------------- runAuthRefresh --------------------------- *)
\* tokens != nil && tokens.RefreshToken != ""
RefreshReady(s) ==
    /\ tokens[s] # Nil
    /\ tokens[s].RefreshToken # <<>>

\* storage.NewFileStorage, store.LoadTokens or store.LoadClientCredentials fails
RefreshLoadFails(s) ==
    /\ \/ Invoke("refresh", s, "failed to load tokens", "")
       \/ /\ RefreshReady(s)
          /\ Invoke("refresh", s, "failed to load client credentials", "")
    /\ hist' = HistOf("refresh")
    /\ UNCHANGED <<tokens, creds, provider, stale>>

\* the fail-fast returns: no refresh token, or no client credentials (which the
\* commands never leave behind while a TokenSet is stored)
RefreshPrecheckTokenOnly(t, c) ==
    IF t = Nil THEN "no refresh token available"
    ELSE IF c = Nil THEN "no client credentials found"
    ELSE NoError
RefreshPrecheck(t, c) ==
    IF t = Nil \/ t.RefreshToken = <<>> THEN "no refresh token available"
    ELSE IF c = Nil THEN "no client credentials found"
    ELSE NoError

RefreshMustLogin(s) ==
    /\ RefreshPrecheck(tokens[s], creds[s]) # NoError
    /\ Invoke("refresh", s, RefreshPrecheck(tokens[s], creds[s]), "")
    /\ hist' = HistOf("refresh")
    /\ UNCHANGED <<tokens, creds, provider, stale>>

\* store.SaveTokens(site, tokens) without a storage error: the entry of the site is
\* the TokenSet it was given
SaveTokens(store, s, t) == [store EXCEPT ![s] = t]

\* what runAuthRefresh hands to store.SaveTokens: newTokens as RefreshToken returned it
RefreshedKeepingOld(old, newTokens) ==
    IF newTokens.RefreshToken = <<>>
    THEN [newTokens EXCEPT !.RefreshToken = old.RefreshToken]
    ELSE newTokens
Refreshed(old, newTokens) == newTokens

\* the store after dcrClient.RefreshToken returned an error: runAuthRefresh returns
\* before store.SaveTokens
StoreAfterRejectedDrops(s) == [tokens EXCEPT ![s] = Nil]
StoreAfterRejected(s) == tokens

RefreshRejected(s) ==
    /\ RefreshPrecheck(tokens[s], creds[s]) = NoError
    /\ Invoke("refresh", s, "failed to refresh token", "")
    /\ hist' = [HistOf("refresh") EXCEPT !.refresh = 1]
    /\ tokens' = StoreAfterRejected(s)
    /\ stale' = [stale EXCEPT ![s] = @ \/ IsExpired(tokens[s])]
    /\ UNCHANGED <<creds, provider>>

RefreshSaveFails(s) ==
    /\ RefreshPrecheck(tokens[s], creds[s]) = NoError
    /\ Invoke("refresh", s, "failed to save tokens", "")
    /\ \E withRefresh \in BOOLEAN, e \in ExpiresInSet :
          hist' = [HistOf("refresh") EXCEPT
                      !.refresh = 1, !.issued = 1,
                      !.obtained = TokenResponse(ops + 1, withRefresh, e, creds[s])]
    /\ UNCHANGED <<tokens, creds, provider, stale>>

RefreshOk(s) ==
    /\ RefreshPrecheck(tokens[s], creds[s]) = NoError
    /\ Invoke("refresh", s, NoError, "")
    /\ \E withRefresh \in BOOLEAN, e \in ExpiresInSet :
          LET newTokens == TokenResponse(ops + 1, withRefresh, e, creds[s])
          IN  /\ tokens' = SaveTokens(tokens, s, Refreshed(tokens[s], newTokens))
              /\ hist' = [HistOf("refresh") EXCEPT !.refresh = 1, !.issued = 1,
                                                   !.obtained = newTokens,
                                                   !.savedTokens = TRUE]
    /\ stale' = [stale EXCEPT ![s] = FALSE]
    /\ UNCHANGED <<creds, provider>>

runAuthRefresh(s) ==
    \/ RefreshLoadFails(s)
    \/ RefreshMustLogin(s)
    \/ RefreshRejected(s)
    \/ RefreshSaveFails(s)
    \/ RefreshOk(s)

(* ------------------- callback server: background side ------------------ *)
\* the command is in or past WaitForCallback with the listener not yet stopped; what a
\* handler does before that is seen by runAuthLogin only there
LoginRunning == pc \in {"waiting", "exchanging"}

\* the listener is up from Start to the deferred Stop: also while login registers the
\* client and builds the authorization URL, before it calls WaitForCallback
Listening == pc \in {"started", "registered", "waiting", "exchanging"}

\* login has not called WaitForCallback yet
BeforeWait == pc \in {"started", "registered"}

\* number of results placed into resultCh so far
Sent == Cardinality({i \in 1..Len(reqs) : reqs[i].order > 0})

\* s.resultCh <- r on a channel of capacity 1: blocks (ok is FALSE) while the buffer is full
SendOverwrite(ch, r) == [ok |-> TRUE, ch |-> <<r>>]
Send(ch, r) ==
    [ok |-> Len(ch) < ChanCap, ch |-> IF Len(ch) < ChanCap THEN Append(ch, r) ELSE ch]

\* renderError / renderSuccess: the page answered to the browser, 400 or 200; 0 when
\* executing the template fails and no page is delivered
RenderValidated(q, rendered) ==
    IF ~rendered THEN 0 ELSE IF q.Error # "" \/ q.Code = "" THEN 400 ELSE 200
Render(q, rendered) == IF ~rendered THEN 0 ELSE IF q.Error # "" THEN 400 ELSE 200

\* the record of a handler that got through its send, then rendered
Handled(q, rendered) ==
    [q |-> q, phase |-> "done", page |-> Render(q, rendered), order |-> Sent + 1]

\* a handler that renders first and leaves on a rendering failure, sending nothing
HandleCallbackRenderFirst(ch, q, rendered) ==
    IF rendered THEN [ch |-> Send(ch, q).ch, rec |-> Handled(q, rendered)]
    ELSE [ch |-> ch, rec |-> [q |-> q, phase |-> "done", page |-> 0, order |-> 0]]

\* handleCallback from the send on: s.resultCh <- result comes first, the page is
\* rendered after it, so the channel holds the result whatever the rendering does
HandleCallback(ch, q, rendered) ==
    [ch |-> Send(ch, q).ch, rec |-> Handled(q, rendered)]

\* the paths of the requests made to the listener
Paths ==
    IF FaultsExplored THEN {"/callback", "/", "/callback/", "/oauth/callback"}
    ELSE {"/callback"}

\* whether executing the page template succeeds
RenderOutcomes == IF FaultsExplored THEN BOOLEAN ELSE {TRUE}

\* the ServeMux of Start: one pattern, "/callback", without a trailing slash, matches
\* that path only; every other path gets the NotFound handler of the mux
RouteAny(path) == "handleCallback"
Route(path) == IF path = "/callback" THEN "handleCallback" ELSE "NotFound"

\* a GET path?... request is accepted. On the route of handleCallback the handler
\* runs: to its end when the buffer has room, up to the send when it is full. On any
\* other path the mux answers 404 and nothing of the Server is touched.
Request(path, q) ==
    /\ Listening
    /\ srv = "serving"
    /\ nreq < MaxRequests
    /\ nreq' = nreq + 1
    /\ IF Route(path) # "handleCallback"
       THEN /\ hist' = [hist EXCEPT !.notFound = @ + 1]
            /\ UNCHANGED <<resultCh, reqs>>
       ELSE /\ hist' = [hist EXCEPT !.early = IF BeforeWait THEN @ + 1 ELSE @]
            /\ IF Send(resultCh, q).ok
               THEN \E rendered \in RenderOutcomes :
                       /\ resultCh' = HandleCallback(resultCh, q, rendered).ch
                       /\ reqs' = Append(reqs, [path |-> path] @@
                                         HandleCallback(resultCh, q, rendered).rec)
               ELSE /\ resultCh' = resultCh
                    /\ reqs' = Append(reqs, [path |-> path, q |-> q, phase |-> "sending",
                                             page |-> 0, order |-> 0])
    /\ UNCHANGED <<now, ticks, ops, tokens, creds, provider, stale, pc, lg,
                   srv, ret>>

\* a handler blocked in the send gets through once the buffer has room, and renders
HandlerSend(i) ==
    /\ Listening
    /\ reqs[i].phase = "sending"
    /\ Send(resultCh, reqs[i].q).ok
    /\ \E rendered \in RenderOutcomes :
          /\ resultCh' = HandleCallback(resultCh, reqs[i].q, rendered).ch
          /\ reqs' = [reqs EXCEPT ![i] = [path |-> reqs[i].path] @@
                                          HandleCallback(resultCh, reqs[i].q, rendered).rec]
    /\ UNCHANGED <<now, ticks, ops, nreq, tokens, creds, provider, stale, pc, lg,
                   srv, hist, ret>>

(* ----------------------------- runAuthLogin ---------------------------- *)
\* a return of runAuthLogin before the callback server exists
LoginStorageFails(s) ==
    /\ Invoke("login", s, "failed to load client credentials", "")
    /\ hist' = HistOf("login")
    /\ UNCHANGED <<tokens, creds, provider, stale>>

\* callback.NewServer fails: no port available
LoginNewServerFails(s) ==
    /\ Invoke("login", s, "failed to create callback server", "")
    /\ hist' = HistOf("login")
    /\ UNCHANGED <<tokens, creds, provider, stale>>

\* LoadClientCredentials, NewServer on a port the system picked, Start (whose
\* goroutine binds 127.0.0.1:port or fails to), defer Stop
LoginStart(s, p) ==
    /\ pc = "idle"
    /\ ops < MaxOps
    /\ ops' = ops + 1
    /\ pc' = "started"
    /\ lg' = [LgInit EXCEPT !.site = s, !.creds = creds[s], !.port = p,
                            !.redirectURI = RedirectURI(p)]
    /\ srv' \in {"serving", "bindfailed"}
    /\ hist' = [HistOf("login") EXCEPT !.started = TRUE]
    /\ UNCHANGED <<now, ticks, nreq, tokens, creds, provider, stale, resultCh, reqs, ret>>

\* a return of runAuthLogin after defer callbackServer.Stop() was registered
LoginReturnDetail(err, detail) ==
    /\ pc' = "returned"
    /\ ret' = [Returned("login", lg.site, err, "") EXCEPT !.detail = detail]
    /\ srv' = Stop(srv)

LoginReturn(err) == LoginReturnDetail(err, <<>>)

\* if creds == nil
NeedsRegistrationAlways(c) == TRUE
NeedsRegistration(c) == c = Nil

\* dcrClient.Register fails
LoginRegisterFails ==
    /\ pc = "started"
    /\ NeedsRegistration(lg.creds)
    /\ hist' = [hist EXCEPT !.register = @ + 1]
    /\ LoginReturn("failed to register client")
    /\ UNCHANGED <<now, ticks, ops, nreq, tokens, creds, provider, stale, lg,
                   resultCh, reqs>>

\* Register succeeds, store.SaveClientCredentials fails
LoginSaveCredentialsFails ==
    /\ pc = "started"
    /\ NeedsRegistration(lg.creds)
    /\ hist' = [hist EXCEPT !.register = @ + 1]
    /\ provider' = [provider EXCEPT !.regs[lg.site] = @ + 1, !.lost[lg.site] = @ + 1]
    /\ lg' = [lg EXCEPT !.creds = Register(lg.redirectURI, lg.site)]
    /\ LoginReturn("failed to save client credentials")
    /\ UNCHANGED <<now, ticks, ops, nreq, tokens, creds, stale, resultCh, reqs>>

\* Register succeeds and the credentials are saved
LoginRegisterOk ==
    /\ pc = "started"
    /\ NeedsRegistration(lg.creds)
    /\ hist' = [hist EXCEPT !.register = @ + 1, !.savedCreds = TRUE]
    /\ provider' = [provider EXCEPT !.regs[lg.site] = @ + 1]
    /\ lg' = [lg EXCEPT !.creds = Register(lg.redirectURI, lg.site)]
    /\ creds' = [creds EXCEPT ![lg.site] = Register(lg.redirectURI, lg.site)]
    /\ pc' = "registered"
    /\ UNCHANGED <<now, ticks, ops, nreq, tokens, stale, srv, resultCh, reqs, ret>>

\* else: "Using existing client registration"
LoginReuseCredentials ==
    /\ pc = "started"
    /\ ~NeedsRegistration(lg.creds)
    /\ pc' = "registered"
    /\ UNCHANGED <<now, ticks, ops, nreq, tokens, creds, provider, stale, lg, srv,
                   resultCh, reqs, hist, ret>>

\* oauth.GeneratePKCEChallenge or oauth.GenerateState fails
LoginGenerateFails ==
    /\ pc = "registered"
    /\ LoginReturn("failed to generate PKCE challenge")
    /\ UNCHANGED <<now, ticks, ops, nreq, tokens, creds, provider, stale, lg,
                   resultCh, reqs, hist>>

\* PKCE challenge and state generated, authorization URL built and printed,
\* openBrowser tried (its failure only prints), WaitForCallback entered
\* what openBrowser returns: nil, the error of an unsupported runtime.GOOS, or the
\* error of running the command that opens it
OpenBrowserErrors ==
    IF FaultsExplored THEN {NoError, "unsupported platform", "exec failed"} ELSE {NoError}

\* what runAuthLogin prints of the authorization URL: once before openBrowser, once
\* more when openBrowser failed
PrintedURLs(url, err) == IF err = NoError THEN <<url>> ELSE <<url, url>>

\* where runAuthLogin is after openBrowser returned err: its error is only printed
AfterOpenBrowserAborts(err) == IF err = NoError THEN "waiting" ELSE "returned"
AfterOpenBrowser(err) == "waiting"

LoginAuthorize ==
    /\ pc = "registered"
    /\ \E err \in OpenBrowserErrors :
          LET pkce == GeneratePKCEChallenge(ops)
              url == BuildAuthorizationURL(lg.creds.ClientID, lg.redirectURI,
                                           GenerateState(ops), pkce)
          IN  /\ lg' = [lg EXCEPT !.state = GenerateState(ops),
                                  !.verifier = pkce.Verifier,
                                  !.pkce = pkce,
                                  !.authURL = url,
                                  !.browserErr = err,
                                  !.printed = PrintedURLs(url, err)]
              /\ pc' = AfterOpenBrowser(err)
    /\ UNCHANGED <<now, ticks, ops, nreq, tokens, creds, provider, stale, srv,
                   resultCh, reqs, hist, ret>>

\* WaitForCallback: the result received from resultCh, or the timeout error when the
\* timer fires with nothing in the channel
WaitForCallbackNoError(ch) ==
    IF ch # <<>> THEN [result |-> Head(ch), err |-> NoError]
    ELSE [result |-> CallbackResult("", <<>>, ""), err |-> NoError]
WaitForCallback(ch) ==
    IF ch # <<>> THEN [result |-> Head(ch), err |-> NoError]
    ELSE [result |-> Nil, err |-> "timeout waiting for OAuth callback"]

\* the checks of runAuthLogin on what WaitForCallback returned: the error it returns
\* with, or NoError to go on to the code exchange
CheckCallbackNoValidation(w, state) ==
    IF w.err # NoError THEN "failed to receive callback"
    ELSE IF w.result.Error # "" THEN "OAuth error"
    ELSE NoError
CheckCallback(w, state) ==
    IF w.err # NoError THEN "failed to receive callback"
    ELSE IF w.result.Error # "" THEN "OAuth error"
    ELSE IF ValidateCallback(w.result.Code, w.result.State, state) # NoError
         THEN "invalid callback"
    ELSE NoError

\* the timer of WaitForCallback fires: CallbackTimeout seconds have passed
LoginTimeout ==
    /\ pc = "waiting"
    /\ resultCh = <<>>
    /\ hist' = [hist EXCEPT !.waited = CallbackTimeout]
    /\ IF CheckCallback(WaitForCallback(resultCh), lg.state) # NoError
       THEN LoginReturn(CheckCallback(WaitForCallback(resultCh), lg.state))
       ELSE pc' = "exchanging" /\ UNCHANGED <<srv, ret>>
    /\ UNCHANGED <<now, ticks, ops, nreq, tokens, creds, provider, stale, lg,
                   resultCh, reqs>>

\* the timer of WaitForCallback fires, and before the deferred Stop has shut the
\* listener down a /callback request is handled: its result goes into the buffer
\* nobody reads any more and its page is rendered, while login returns the timeout
LoginTimeoutThenRequest(q) ==
    /\ pc = "waiting"
    /\ resultCh = <<>>
    /\ srv = "serving"
    /\ nreq < MaxRequests
    /\ nreq' = nreq + 1
    /\ hist' = [hist EXCEPT !.waited = CallbackTimeout]
    /\ \E rendered \in RenderOutcomes :
          /\ resultCh' = HandleCallback(resultCh, q, rendered).ch
          /\ reqs' = Append(reqs, [path |-> "/callback"] @@
                                  HandleCallback(resultCh, q, rendered).rec)
    /\ LoginReturn(CheckCallback(WaitForCallback(resultCh), lg.state))
    /\ UNCHANGED <<now, ticks, ops, tokens, creds, provider, stale, lg>>

\* fmt.Errorf("OAuth error: %s - %s", result.Error, result.ErrorDescription)
OAuthErrorNoDescription(result) == <<result.Error, "">>
OAuthError(result) == <<result.Error, result.ErrorDescription>>

\* a result is received and rejected: provider error, state mismatch or missing code
LoginCallbackRejected ==
    /\ pc = "waiting"
    /\ resultCh # <<>>
    /\ CheckCallback(WaitForCallback(resultCh), lg.state) # NoError
    /\ lg' = [lg EXCEPT !.result = WaitForCallback(resultCh).result]
    /\ resultCh' = Tail(resultCh)
    /\ LoginReturnDetail(CheckCallback(WaitForCallback(resultCh), lg.state),
                         IF CheckCallback(WaitForCallback(resultCh), lg.state) = "OAuth error"
                         THEN OAuthError(WaitForCallback(resultCh).result)
                         ELSE <<>>)
    /\ UNCHANGED <<now, ticks, ops, nreq, tokens, creds, provider, stale, reqs, hist>>

\* a result is received and accepted
LoginCallbackOk ==
    /\ pc = "waiting"
    /\ resultCh # <<>>
    /\ CheckCallback(WaitForCallback(resultCh), lg.state) = NoError
    /\ lg' = [lg EXCEPT !.result = WaitForCallback(resultCh).result]
    /\ resultCh' = Tail(resultCh)
    /\ pc' = "exchanging"
    /\ UNCHANGED <<now, ticks, ops, nreq, tokens, creds, provider, stale, srv,
                   reqs, hist, ret>>

\* dcrClient.ExchangeCode(result.Code, redirectURI, pkce.Verifier, creds) is called
ExchangeRetried ==
    [hist EXCEPT !.exchange = @ + 2, !.exchangeURI = lg.redirectURI,
                 !.exchangeVerifier = lg.verifier]
ExchangeCalled ==
    [hist EXCEPT !.exchange = @ + 1, !.exchangeURI = lg.redirectURI,
                 !.exchangeVerifier = lg.verifier]

\* a code-exchange failure that rolled the registration back would delete the stored
\* client credentials again
LoginExchangeFailsUnregisters ==
    /\ pc = "exchanging"
    /\ hist' = ExchangeCalled
    /\ creds' = Delete(creds, lg.site)
    /\ LoginReturn("failed to exchange code")
    /\ UNCHANGED <<now, ticks, ops, nreq, tokens, provider, stale, lg,
                   resultCh, reqs>>

LoginExchangeFails ==
    /\ pc = "exchanging"
    /\ hist' = ExchangeCalled
    /\ LoginReturn("failed to exchange code")
    /\ UNCHANGED <<now, ticks, ops, nreq, tokens, creds, provider, stale, lg,
                   resultCh, reqs>>

LoginSaveTokensFailsSilently ==
    /\ pc = "exchanging"
    /\ \E withRefresh \in BOOLEAN, e \in ExpiresInSet :
          hist' = [ExchangeCalled EXCEPT
                      !.issued = 1,
                      !.obtained = TokenResponse(ops, withRefresh, e, lg.creds)]
    /\ LoginReturn(NoError)
    /\ UNCHANGED <<now, ticks, ops, nreq, tokens, creds, provider, stale, lg,
                   resultCh, reqs>>
LoginSaveTokensFails ==
    /\ pc = "exchanging"
    /\ \E withRefresh \in BOOLEAN, e \in ExpiresInSet :
          hist' = [ExchangeCalled EXCEPT
                      !.issued = 1,
                      !.obtained = TokenResponse(ops, withRefresh, e, lg.creds)]
    /\ LoginReturn("failed to save tokens")
    /\ UNCHANGED <<now, ticks, ops, nreq, tokens, creds, provider, stale, lg,
                   resultCh, reqs>>

LoginOk ==
    /\ pc = "exchanging"
    /\ \E withRefresh \in BOOLEAN, e \in ExpiresInSet :
          LET newTokens == TokenResponse(ops, withRefresh, e, lg.creds)
          IN  /\ tokens' = SaveTokens(tokens, lg.site, newTokens)
              /\ hist' = [ExchangeCalled EXCEPT !.issued = 1, !.obtained = newTokens,
                                                !.savedTokens = TRUE]
    /\ stale' = [stale EXCEPT ![lg.site] = FALSE]
    /\ LoginReturn(NoError)
    /\ UNCHANGED <<now, ticks, ops, nreq, creds, provider, lg, resultCh, reqs>>

runAuthLogin ==
    \/ LoginStorageFails(cfgSite)
    \/ LoginNewServerFails(cfgSite)
    \/ \E p \in Ports : LoginStart(cfgSite, p)
    \/ LoginRegisterFails
    \/ LoginSaveCredentialsFails
    \/ LoginRegisterOk
    \/ LoginReuseCredentials
    \/ LoginGenerateFails
    \/ LoginAuthorize
    \/ LoginTimeout
    \/ LoginCallbackRejected
    \/ LoginCallbackOk
    \/ LoginExchangeFails
    \/ LoginSaveTokensFails
    \/ LoginOk

(* --------------------------- specification ----------------------------- *)
\* the /callback requests a browser, or anybody else on the machine, may send to
\* the listener of login attempt n: every kind as the first request of the listener,
\* one with and one without an error parameter as the second, one kind from the third
\* on (the handler looks at nothing but the error parameter, and runAuthLogin receives
\* one result); before the state of the attempt exists, requests cannot carry it.
\* In later invocations the listener is sent the one request of the provider's
\* redirect after consent, while login waits for it
Requests(n) ==
    IF ~FaultsExplored
    THEN IF ~BeforeWait /\ reqs = <<>>
         THEN {CallbackResult("code1", GenerateState(n), "")}
         ELSE {}
    ELSE IF BeforeWait
    THEN {CallbackResult("code1", Forged, ""),
          CallbackResult("", Forged, "access_denied")}
    ELSE IF reqs = <<>>
    THEN {CallbackResult("code1", GenerateState(n), ""),
          CallbackResult("code1", Forged, ""),
          CallbackResult("", GenerateState(n), ""),
          CallbackResult("", Forged, "access_denied"),
          [CallbackResult("code1", GenerateState(n), "server_error") EXCEPT
              !.ErrorDescription = ""]}
    ELSE IF Len(reqs) = 1
    THEN {CallbackResult("code2", GenerateState(n), ""),
          CallbackResult("", Forged, "access_denied")}
    ELSE {CallbackResult("code2", GenerateState(n), "")}

Next ==
    \/ \E d \in TickSteps : Tick(d)
    \/ Exit
    \/ runAuthStatus(cfgSite)
    \/ runAuthLogout(cfgSite)
    \/ runAuthRefresh(cfgSite)
    \/ runAuthLogin
    \/ \E path \in Paths, q \in Requests(ops) : Request(path, q)
    \/ \E q \in Requests(ops) : LoginTimeoutThenRequest(q)
    \/ \E i \in 1..Len(reqs) : HandlerSend(i)

Spec == Init /\ [][Next]_vars

(* ------------------------------ properties ----------------------------- *)
\* the instant from which a TokenSet is inside the expiry buffer
Boundary(tok) == tok.IssuedAt + tok.ExpiresIn - ExpiryBuffer

\* the running or returned command is a login whose WaitForCallback returned a result
LoginGotResult == hist.op = "login" /\ lg.result # Nil

\* C1: in login, whenever the state of the callback differs from the state generated for
\* the attempt, login returns an error, ExchangeCode is not called and no TokenSet is
\* saved, whatever the code of the callback.
C1_StateMismatchAborts ==
    (LoginGotResult /\ lg.result.State # lg.state) =>
        /\ pc = "returned"
        /\ ret.op = "login"
        /\ ret.err # NoError
        /\ hist.exchange = 0
        /\ ~hist.savedTokens

C1_Witness ==
    /\ pc = "returned"
    /\ LoginGotResult
    /\ lg.result.State # lg.state
    /\ lg.result.Code # ""
    /\ lg.result.Error = ""
    /\ ret.err = "invalid callback"

\* a step in which refresh called RefreshToken and the provider issued nothing
RefreshRejectedStep ==
    /\ pc = "idle"
    /\ hist'.op = "refresh"
    /\ hist'.refresh = 1
    /\ hist'.issued = 0

\* C2: when the provider rejects the refresh-token grant, refresh returns an error and
\* the stored TokenSet and ClientCredentials are what they were; a later status on that
\* TokenSet, expired when the refresh was rejected, reports "expired".
C2_RejectedRefreshKeepsStore ==
    /\ [][RefreshRejectedStep =>
             /\ ret'.err # NoError
             /\ tokens' = tokens
             /\ creds' = creds]_vars
    /\ []((pc = "returned" /\ ret.op = "status" /\ ret.err = NoError /\ stale[ret.site])
             => ret.status = "expired")

C2_Witness ==
    /\ pc = "returned"
    /\ ret.op = "status"
    /\ stale[ret.site]
    /\ ret.status = "expired"

\* C3: for every stored TokenSet and every instant, IsExpired is true exactly when
\* now + 300s >= issued_at + expires_in, the boundary instant included.
C3_ExpiredFromBoundaryOn ==
    \A s \in Sites :
        tokens[s] # Nil =>
            (IsExpired(tokens[s]) <=>
                now + ExpiryBuffer >= tokens[s].IssuedAt + tokens[s].ExpiresIn)

\* C4: for every stored TokenSet, IsExpired is false one second before the boundary
\* issued_at + expires_in - 300s and true one second after it, and status reports
\* "valid" and "expired" at these two instants.
C4_OneSecondAroundBoundary ==
    /\ \A s \in Sites :
          tokens[s] # Nil =>
              /\ ~IsExpiredAt(tokens[s], Boundary(tokens[s]) - 1)
              /\ IsExpiredAt(tokens[s], Boundary(tokens[s]) + 1)
    /\ (pc = "returned" /\ ret.op = "status" /\ ret.status \in {"valid", "expired"}) =>
          /\ now = Boundary(tokens[ret.site]) - 1 => ret.status = "valid"
          /\ now = Boundary(tokens[ret.site]) + 1 => ret.status = "expired"

C4_Witness ==
    /\ pc = "returned"
    /\ ret.op = "status"
    /\ ret.status = "expired"
    /\ now = Boundary(tokens[ret.site]) + 1

\* C5: once login has started the callback listener, the listener is stopped when
\* login returns, on every exit path.
C5_ListenerStoppedOnReturn ==
    (pc = "returned" /\ hist.op = "login" /\ hist.started) => srv = "closed"

C5_Witness ==
    /\ pc = "returned"
    /\ hist.op = "login"
    /\ hist.started
    /\ ret.err = "failed to exchange code"
    /\ \E i \in 1..Len(reqs) : reqs[i].phase = "done"
    /\ srv = "closed"

\* C6: for one callback listener at most one CallbackResult is ever placed into the
\* channel; a later /callback request does not send another result.
C6_AtMostOneResultSent == Sent <= 1

\* C7: the result WaitForCallback returns is that of the first request that handed its
\* result over, never that of a later one, and login receives one result per attempt.
C7_FirstRequestWins ==
    /\ [](LoginGotResult =>
             \E i \in 1..Len(reqs) : reqs[i].order = 1 /\ reqs[i].q = lg.result)
    /\ [][Len(resultCh') < Len(resultCh) =>
             \/ lg.result = Nil /\ lg'.result = Head(resultCh)
             \/ pc' = "idle"]_vars

C7_Witness ==
    /\ LoginGotResult
    /\ Len(reqs) = 2
    /\ reqs[1].order > 0
    /\ reqs[2].order > 0
    /\ reqs[1].q # reqs[2].q

\* C8: if no /callback request hands over a result before the timeout, WaitForCallback
\* returns the timeout error, never blocking for good; login returns that error,
\* ExchangeCode is not called, no TokenSet is saved and the listener is stopped.
C8_TimeoutFailsLogin ==
    /\ [][(pc = "waiting" /\ resultCh = <<>> /\ pc' # "waiting") =>
             /\ pc' = "returned"
             /\ ret'.op = "login"
             /\ ret'.err = "failed to receive callback"
             /\ hist'.waited = CallbackTimeout
             /\ hist'.exchange = 0
             /\ ~hist'.savedTokens
             /\ tokens' = tokens
             /\ srv' = "closed"]_vars
    /\ []((pc = "waiting" /\ resultCh = <<>>) => ENABLED LoginTimeout)

C8_Witness ==
    /\ pc = "returned"
    /\ ret.op = "login"
    /\ ret.err = "failed to receive callback"
    /\ hist.exchange = 0
    /\ srv = "closed"

\* C9: in every login attempt the redirect URI of the authorization URL and of the code
\* exchange is the listener's http://127.0.0.1:<port>/callback and is a redirect URI
\* registered for the ClientCredentials the attempt uses, registered in this attempt or
\* loaded from the store.
C9_RedirectURIRegistered ==
    /\ lg.authURL # Nil =>
          /\ lg.authURL.redirect_uri = RedirectURI(lg.port)
          /\ lg.authURL.redirect_uri \in lg.creds.RedirectURIs
    /\ hist.exchangeURI # Nil =>
          /\ hist.exchangeURI = RedirectURI(lg.port)
          /\ hist.exchangeURI \in lg.creds.RedirectURIs

\* a step in which login calls Register
RegisterStep == hist'.register > hist.register

\* login registers only when no ClientCredentials are stored for the site, and stored
\* ClientCredentials are replaced by nothing but a logout
RegistersOnlyWithoutCredentials ==
    /\ [][RegisterStep => (hist.op = "login" /\ creds[lg.site] = Nil)]_vars
    /\ [][\A s \in Sites :
             creds[s] # Nil => (creds'[s] = creds[s] \/ hist'.op = "logout")]_vars

\* C10 as stated: login registers only when no ClientCredentials are stored and never
\* overwrites stored ones, and between two logouts at most one registration is
\* performed for the site.
C10_AtMostOneRegistration ==
    /\ RegistersOnlyWithoutCredentials
    /\ [](\A s \in Sites : provider.regs[s] <= 1)

\* C10 amended: login registers only when no ClientCredentials are stored and never
\* overwrites stored ones, and between two logouts at most one registration whose
\* credentials were saved is performed for the site.
C10_AtMostOneSavedRegistration ==
    /\ RegistersOnlyWithoutCredentials
    /\ [](\A s \in Sites :
             /\ provider.regs[s] - provider.lost[s] <= 1
             /\ creds[s] # Nil => provider.regs[s] - provider.lost[s] = 1)

C10_Witness ==
    /\ pc = "registered"
    /\ hist.register = 0
    /\ lg.creds # Nil
    /\ creds[lg.site] = lg.creds
    /\ provider.regs[lg.site] = 1

\* C11: no provider call is retried inside one invocation: Register, ExchangeCode and
\* RefreshToken are each called at most once, a failed call ends the invocation with
\* its error and nothing obtained, and a returned invocation makes no further call.
C11_NoRetry ==
    /\ [](/\ hist.register <= 1
          /\ hist.exchange <= 1
          /\ hist.refresh <= 1)
    /\ []((pc = "returned" /\ ret.err = "failed to register client") =>
             (hist.register = 1 /\ hist.exchange = 0 /\ ~hist.savedCreds))
    /\ []((pc = "returned" /\ ret.err = "failed to exchange code") =>
             (hist.exchange = 1 /\ hist.issued = 0 /\ ~hist.savedTokens))
    /\ []((pc = "returned" /\ ret.err = "failed to refresh token") =>
             (hist.refresh = 1 /\ hist.issued = 0 /\ ~hist.savedTokens))
    /\ [][pc = "returned" => (pc' = "idle" /\ hist' = HistInit)]_vars

C11_Witness ==
    /\ pc = "returned"
    /\ ret.err = "failed to exchange code"
    /\ hist.register = 1
    /\ hist.exchange = 1

\* a step that is a whole logout invocation
LogoutStep == pc = "idle" /\ hist'.op = "logout"

\* C12: logout succeeds whatever is stored for the site, nothing at all included (as it
\* is right after a logout): unless a storage operation fails it returns no error, and
\* after a logout without error neither a TokenSet nor ClientCredentials are stored.
C12_LogoutIdempotent ==
    /\ [][LogoutStep =>
             /\ ret'.err \in {NoError, "failed to delete tokens",
                              "failed to delete client credentials"}
             /\ ret'.err = NoError =>
                   (tokens'[cfgSite] = Nil /\ creds'[cfgSite] = Nil)]_vars
    /\ []((pc = "idle" /\ ops < MaxOps) => ENABLED LogoutOk(cfgSite))

C12_Witness ==
    /\ pc = "returned"
    /\ ret.op = "logout"
    /\ ret.err = NoError
    /\ hist.before = [tokens |-> Nil, creds |-> Nil]
    /\ ops = 2
    /\ tokens[cfgSite] = Nil
    /\ creds[cfgSite] = Nil

\* C13: every logout invocation attempts to delete the TokenSet and to delete the
\* ClientCredentials, whatever the outcome of the other deletion.
C13_BothDeletionsAttempted ==
    (pc = "returned" /\ ret.op = "logout") =>
        hist.attempted = {"tokens", "credentials"}

\* a step that is a whole refresh invocation
RefreshStep == pc = "idle" /\ hist'.op = "refresh"

\* stored values to try the checks of refresh on
StoredSamples == UNION {StoredBefore(s) : s \in Sites}

\* C14: when no TokenSet is stored, when the stored TokenSet has an empty refresh token
\* or when no ClientCredentials are stored, refresh returns an error (unless loading
\* failed, the one telling the user to log in), calls RefreshToken not at all and
\* leaves the store unchanged.
C14_RefreshFailsFast ==
    /\ [][(/\ RefreshStep
           /\ \/ ~RefreshReady(cfgSite)
              \/ creds[cfgSite] = Nil) =>
             /\ ret'.err \in {"no refresh token available", "no client credentials found",
                              "failed to load tokens", "failed to load client credentials"}
             /\ hist'.refresh = 0
             /\ tokens' = tokens
             /\ creds' = creds]_vars
    /\ [](\A x, y \in StoredSamples :
             /\ (x.tokens = Nil \/ x.tokens.RefreshToken = <<>>) =>
                   RefreshPrecheck(x.tokens, y.creds) = "no refresh token available"
             /\ (x.tokens # Nil /\ x.tokens.RefreshToken # <<>> /\ y.creds = Nil) =>
                   RefreshPrecheck(x.tokens, y.creds) = "no client credentials found")

C14_Witness ==
    /\ pc = "returned"
    /\ ret.op = "refresh"
    /\ ret.err = "no refresh token available"
    /\ hist.before.tokens # Nil
    /\ hist.before.tokens.RefreshToken = <<>>
    /\ hist.refresh = 0
    /\ tokens[cfgSite] = hist.before.tokens

\* C15: on a successful refresh the stored TokenSet of the site is the TokenSet that
\* RefreshToken returned, equal to it in every field, an empty refresh token included,
\* and the ClientCredentials are unchanged.
C15_RefreshReplacesWholesale ==
    [][(RefreshStep /\ ret'.err = NoError) =>
          /\ hist'.refresh = 1
          /\ hist'.obtained # Nil
          /\ tokens'[cfgSite] = hist'.obtained
          /\ tokens'[cfgSite].AccessToken # tokens[cfgSite].AccessToken
          /\ creds' = creds]_vars

C15_Witness ==
    /\ pc = "returned"
    /\ ret.op = "refresh"
    /\ ret.err = NoError
    /\ hist.before.tokens.RefreshToken # <<>>
    /\ hist.obtained.RefreshToken = <<>>
    /\ hist.obtained.ExpiresIn # hist.before.tokens.ExpiresIn
    /\ tokens[cfgSite] = hist.obtained
    /\ creds[cfgSite] = hist.before.creds

\* C16: login and refresh return nil exactly when a TokenSet the provider returned in
\* that invocation (to ExchangeCode, to RefreshToken) has been saved; on every other
\* path they return an error, and a refresh that fails leaves the stored TokenSet as
\* it was.
C16_SuccessMeansSaved ==
    (pc = "returned" /\ ret.op \in {"login", "refresh"}) =>
        /\ ret.err = NoError <=>
              /\ hist.issued = 1
              /\ hist.savedTokens
              /\ hist.obtained # Nil
              /\ tokens[ret.site] = hist.obtained
        /\ (ret.err = NoError /\ ret.op = "login") => hist.exchange = 1
        /\ (ret.err = NoError /\ ret.op = "refresh") => hist.refresh = 1
        /\ (ret.err # NoError /\ ret.op = "refresh") =>
              tokens[ret.site] = hist.before.tokens

C16_Witness ==
    /\ pc = "returned"
    /\ ret.op = "login"
    /\ ret.err = NoError
    /\ hist.exchange = 1
    /\ hist.savedTokens
    /\ tokens[ret.site] = hist.obtained
    /\ tokens[ret.site] # hist.before.tokens

\* C17: when the callback login received carries a non-empty error parameter, login
\* returns the provider's error and error_description, whatever the code and the state
\* of that callback, a state that does not match included, and calls neither
\* ExchangeCode nor SaveTokens.
C17_ProviderErrorFirst ==
    (LoginGotResult /\ lg.result.Error # "") =>
        /\ pc = "returned"
        /\ ret.op = "login"
        /\ ret.err = "OAuth error"
        /\ ret.detail = <<lg.result.Error, lg.result.ErrorDescription>>
        /\ hist.exchange = 0
        /\ hist.issued = 0
        /\ ~hist.savedTokens
        /\ tokens[cfgSite] = hist.before.tokens

C17_Witness ==
    /\ pc = "returned"
    /\ LoginGotResult
    /\ lg.result.Error = "access_denied"
    /\ lg.result.ErrorDescription # ""
    /\ lg.result.State # lg.state
    /\ ret.err = "OAuth error"
    /\ hist.exchange = 0

\* C18: status returns without error unless loading fails; it reports "not
\* authenticated" when no TokenSet is stored, "expired" with authenticated false exactly
\* when IsExpired is true of the stored TokenSet, "valid" with authenticated true
\* exactly when it is false.
C18_StatusReports ==
    (pc = "returned" /\ ret.op = "status") =>
        /\ ret.err \in {NoError, "failed to load tokens"}
        /\ ret.err = NoError =>
              IF tokens[ret.site] = Nil
              THEN ret.status = "not authenticated" /\ ret.output = Nil
              ELSE /\ ret.output # Nil
                   /\ ret.output.status = ret.status
                   /\ IsExpired(tokens[ret.site]) <=>
                         (ret.status = "expired" /\ ~ret.output.authenticated)
                   /\ ~IsExpired(tokens[ret.site]) <=>
                         (ret.status = "valid" /\ ret.output.authenticated)

C18_Witness ==
    /\ pc = "returned"
    /\ ret.op = "status"
    /\ ret.err = NoError
    /\ tokens[ret.site] # Nil
    /\ ~IsExpired(tokens[ret.site])
    /\ ret.status = "valid"
    /\ ret.output.authenticated

\* token values a TokenSet could carry instead of its own
OtherAccessTokens == {<<"access", n>> : n \in 0..MaxOps}
OtherRefreshTokens == {<<"refresh", n>> : n \in 0..MaxOps}

\* C19: what status produces for a stored TokenSet is what it produces, at the same
\* instant, for any TokenSet that differs from it only in the value of the access token
\* and in the value of a non-empty refresh token.
C19_StatusHidesTokenValues ==
    /\ \A s \in Sites :
          (tokens[s] # Nil /\ tokens[s].RefreshToken # <<>>) =>
              \A a \in OtherAccessTokens, r \in OtherRefreshTokens :
                  StatusOutput([tokens[s] EXCEPT !.AccessToken = a, !.RefreshToken = r],
                               now, s)
                    = StatusOutput(tokens[s], now, s)
    /\ (pc = "returned" /\ ret.op = "status" /\ ret.output # Nil) =>
          \A a \in OtherAccessTokens :
              ret.output = StatusOutput([tokens[ret.site] EXCEPT !.AccessToken = a],
                                        now, ret.site)

C19_Witness ==
    /\ pc = "returned"
    /\ ret.op = "status"
    /\ ret.output # Nil
    /\ tokens[ret.site].RefreshToken # <<>>
    /\ \E a \in OtherAccessTokens : a # tokens[ret.site].AccessToken
    /\ ret.output = StatusOutput(tokens[ret.site], now, ret.site)

\* C20: whenever NewServer and Start returned without error, for as long as login has
\* not returned, the listener accepts requests on the port RedirectURI names.
C20_StartedListenerServes ==
    (hist.op = "login" /\ hist.started /\ pc # "returned") =>
        /\ srv = "serving"
        /\ lg.redirectURI = RedirectURI(lg.port)

\* C21: the callback handler hands the parsed result to the channel before it renders
\* the page: no page exists without the result handed over, a handler that is through
\* has handed its result over whether or not the page could be rendered, and the first
\* result handed over is in the channel or was received by WaitForCallback.
C21_ResultBeforePage ==
    \A i \in 1..Len(reqs) :
        /\ reqs[i].page # 0 => reqs[i].order > 0
        /\ reqs[i].phase = "done" => reqs[i].order > 0
        /\ (reqs[i].phase = "done" /\ reqs[i].order = 1) =>
               \/ resultCh # <<>> /\ Head(resultCh) = reqs[i].q
               \/ LoginGotResult /\ lg.result = reqs[i].q

C21_Witness ==
    /\ pc = "returned"
    /\ ret.op = "login"
    /\ ret.err = NoError
    /\ \E i \in 1..Len(reqs) :
          /\ reqs[i].phase = "done"
          /\ reqs[i].page = 0
          /\ reqs[i].order = 1
          /\ reqs[i].q = lg.result

Generated(n) ==
    {GenerateState(m) : m \in 0..n} \cup {GenerateVerifier(m) : m \in 0..n}

\* C23: a login attempt has a state and a PKCE challenge of its own, different from
\* those of every earlier attempt; its authorization URL carries that state and the
\* challenge of its verifier; the verifier is passed on at most once, to the ExchangeCode
\* call of the attempt; no verifier and no state is among what the store holds.
C23_FreshChallengeAndState ==
    /\ (hist.op = "login" /\ lg.authURL # Nil) =>
          /\ lg.state = GenerateState(ops)
          /\ lg.pkce = GeneratePKCEChallenge(ops)
          /\ lg.verifier = lg.pkce.Verifier
          /\ \A m \in 0..(ops - 1) :
                /\ GenerateState(m) # lg.state
                /\ GenerateVerifier(m) # lg.verifier
          /\ lg.authURL.state = lg.state
          /\ lg.authURL.code_challenge = lg.pkce.Challenge
          /\ lg.authURL.code_challenge.of = Sum256(lg.verifier)
          /\ hist.exchange <= 1
          /\ hist.exchange = 1 => hist.exchangeVerifier = lg.verifier
          /\ hist.exchange = 0 => hist.exchangeVerifier = <<>>
    /\ hist.op # "login" => hist.exchangeVerifier = <<>>
    /\ \A s \in Sites :
          /\ tokens[s] # Nil =>
                /\ DOMAIN tokens[s] = {"AccessToken", "RefreshToken", "TokenType",
                                       "ExpiresIn", "IssuedAt", "ClientID"}
                /\ tokens[s].AccessToken \notin Generated(ops)
                /\ tokens[s].RefreshToken \notin Generated(ops)
          /\ creds[s] # Nil =>
                DOMAIN creds[s] = {"ClientID", "RedirectURIs", "RegisteredAt", "Site"}

C23_Witness ==
    /\ pc = "returned"
    /\ ret.op = "login"
    /\ ret.err = NoError
    /\ ops = 2
    /\ lg.state = GenerateState(2)
    /\ hist.exchange = 1
    /\ hist.exchangeVerifier = GenerateVerifier(2)
    /\ tokens[cfgSite] = hist.obtained

\* C24: the commands run for one site touch the entries of that site only: in every
\* step the TokenSet and the ClientCredentials stored for every other site stay as
\* they are, and what a command returns is returned for the site it ran for.
C24_OtherSitesUntouched ==
    [][/\ \A s \in Sites \ {cfgSite} :
             /\ tokens'[s] = tokens[s]
             /\ creds'[s] = creds[s]
       /\ pc' = "returned" => ret'.site = cfgSite]_vars

C24_Witness ==
    /\ pc = "returned"
    /\ ret.op = "logout"
    /\ ret.err = NoError
    /\ ops = 2
    /\ hist.before.tokens # Nil
    /\ tokens[cfgSite] = Nil
    /\ creds[cfgSite] = Nil
    /\ \A s \in Sites \ {cfgSite} : tokens[s] # Nil /\ creds[s] # Nil

\* C25: every PKCEChallenge has the method S256 and a verifier of at least 43 and at
\* most 128 characters, of 128 characters exactly.
C25_VerifierS256 ==
    /\ \A n \in 0..MaxOps :
          /\ GeneratePKCEChallenge(n).Method = "S256"
          /\ StrLen(GeneratePKCEChallenge(n).Verifier) = VerifierLength
          /\ StrLen(GeneratePKCEChallenge(n).Verifier) >= MinVerifierLength
    /\ lg.pkce # Nil =>
          /\ lg.pkce.Method = "S256"
          /\ StrLen(lg.pkce.Verifier) = VerifierLength
          /\ StrLen(lg.pkce.Verifier) >= MinVerifierLength
          /\ lg.authURL.code_challenge_method = "S256"

C25_Witness ==
    /\ pc = "waiting"
    /\ lg.pkce # Nil
    /\ lg.pkce.Method = "S256"
    /\ StrLen(lg.pkce.Verifier) = 128
    /\ lg.browserErr = NoError

\* BASE64URL-ENCODE(SHA256(ASCII(code_verifier))) of RFC 7636, section 4.2: the 43
\* characters that encode the 32 bytes of the digest without padding
S256(verifier) ==
    [encoding |-> "base64url", padding |-> FALSE,
     of |-> [digest |-> "sha256", of |-> verifier, size |-> 32], len |-> 43]

\* C26: the challenge of a PKCEChallenge is the unpadded URL-safe base64 encoding of
\* the SHA-256 digest of its verifier: computing it again from the verifier gives the
\* challenge, which is what the authorization URL carries.
C26_ChallengeIsS256OfVerifier ==
    /\ \A n \in 0..MaxOps :
          GeneratePKCEChallenge(n).Challenge = S256(GeneratePKCEChallenge(n).Verifier)
    /\ lg.pkce # Nil =>
          /\ lg.pkce.Challenge = S256(lg.pkce.Verifier)
          /\ lg.pkce.Challenge = EncodeToString(Sum256(lg.pkce.Verifier))
          /\ lg.authURL.code_challenge = S256(lg.verifier)

C26_Witness ==
    /\ pc = "exchanging"
    /\ lg.pkce # Nil
    /\ lg.pkce.Challenge = S256(lg.verifier)
    /\ lg.authURL.code_challenge.len = 43
    /\ ~lg.authURL.code_challenge.padding

\* C27: every state GenerateState returns has at least 32 characters, 32 exactly.
C27_StateLength ==
    /\ RandomStringLength(StateLength) = StateLength
    /\ \A n \in 0..MaxOps : StrLen(GenerateState(n)) = StateLength
    /\ lg.state # <<>> =>
          /\ StrLen(lg.state) = StateLength
          /\ StrLen(lg.authURL.state) >= StateLength

C27_Witness ==
    /\ pc = "returned"
    /\ ret.op = "login"
    /\ LoginGotResult
    /\ lg.result.State = lg.state
    /\ StrLen(lg.state) = 32

\* C28: login prints the authorization URL whether or not the browser could be opened,
\* and a browser that cannot be opened does not end login: once the URL is built,
\* login is in WaitForCallback or WaitForCallback has returned, with a result or with
\* the timeout.
C28_BrowserFailureDoesNotAbort ==
    (hist.op = "login" /\ lg.authURL # Nil) =>
        /\ lg.printed # <<>>
        /\ \A i \in 1..Len(lg.printed) : lg.printed[i] = lg.authURL
        /\ lg.browserErr # NoError => Len(lg.printed) = 2
        /\ \/ pc = "waiting"
           \/ lg.result # Nil
           \/ hist.waited = CallbackTimeout /\ ret.err = "failed to receive callback"

C28_Witness ==
    /\ pc = "returned"
    /\ ret.op = "login"
    /\ ret.err = NoError
    /\ lg.browserErr = "exec failed"
    /\ lg.printed = <<lg.authURL, lg.authURL>>
    /\ tokens[cfgSite] = hist.obtained

\* C29: the listener has one route that matters: handleCallback runs for requests to
\* the path /callback only, a result in the channel or received by login comes from
\* such a request, requests to other paths alone leave the channel empty and login
\* waiting, and Start has returned whether or not a request was made.
C29_OnlyCallbackRoute ==
    /\ \A i \in 1..Len(reqs) :
          /\ reqs[i].path = "/callback"
          /\ Route(reqs[i].path) = "handleCallback"
    /\ \A path \in Paths \ {"/callback"} : Route(path) = "NotFound"
    /\ (resultCh # <<>> \/ LoginGotResult) =>
          \E i \in 1..Len(reqs) : reqs[i].path = "/callback" /\ reqs[i].order = 1
    /\ (hist.notFound > 0 /\ reqs = <<>>) =>
          /\ resultCh = <<>>
          /\ lg.result = Nil
          /\ pc # "exchanging"
          /\ pc = "returned" => (ret.err # NoError /\ hist.exchange = 0)
    /\ pc \in {"started", "registered"} =>
          /\ hist.started
          /\ lg.result = Nil

C29_Witness ==
    /\ pc = "returned"
    /\ ret.op = "login"
    /\ ret.err = "failed to receive callback"
    /\ hist.notFound = 2
    /\ reqs = <<>>
    /\ srv = "closed"

\* C30: whatever login, refresh, status and logout did on a site, failed calls of the
\* provider and of the store included, a stored TokenSet has the ClientCredentials it
\* was obtained with stored beside it.
C30_TokensHaveTheirCredentials ==
    \A s \in Sites :
        tokens[s] # Nil =>
            /\ creds[s] # Nil
            /\ tokens[s].ClientID = creds[s].ClientID
            /\ creds[s].Site = s

C30_Witness ==
    /\ ops = 2
    /\ pc = "returned"
    /\ ret.op = "login"
    /\ ret.err = NoError
    /\ hist.register = 1
    /\ hist.before.tokens = Nil
    /\ hist.before.creds = Nil
    /\ tokens[cfgSite] # Nil
    /\ tokens[cfgSite].ClientID = creds[cfgSite].ClientID
    /\ creds[cfgSite].ClientID = 2

\* C31: the result of a /callback request handled after Start and before login calls
\* WaitForCallback stays in the channel, and WaitForCallback returns it when login
\* gets to call it: login does not end with the timeout.
C31_EarlyCallbackBuffered ==
    (hist.op = "login" /\ hist.early > 0) =>
        /\ \E i \in 1..Len(reqs) : reqs[i].order = 1
        /\ \A i \in 1..Len(reqs) :
              reqs[i].order = 1 =>
                 \/ (pc \in {"started", "registered", "waiting"}
                        /\ resultCh = <<reqs[i].q>> /\ lg.result = Nil)
                 \/ (pc \in {"exchanging", "returned"} /\ lg.result = reqs[i].q)
                 \/ (pc = "returned" /\ lg.authURL = Nil
                        /\ resultCh = <<reqs[i].q>> /\ lg.result = Nil)
        /\ hist.waited = 0
        /\ ret.err # "failed to receive callback"
        /\ pc = "waiting" => ~ENABLED LoginTimeout

C31_Witness ==
    /\ pc = "returned"
    /\ ret.op = "login"
    /\ hist.early = 1
    /\ LoginGotResult
    /\ lg.result = reqs[1].q
    /\ hist.waited = 0

\* a handler that is in its send while the buffer is full and login has received the
\* one result it ever receives: nothing will take a result out of the channel again
Stuck(i) ==
    /\ reqs[i].phase = "sending"
    /\ Len(resultCh) = ChanCap
    /\ lg.result # Nil

\* C32: every /callback request gets its handler finished and its page rendered,
\* however many requests one listener gets and whether or not login still waits: no
\* handler stays in its send for good, and Stop finds no handler stuck there.
C32_NoHandlerStuck == \A i \in 1..Len(reqs) : ~Stuck(i)

\* C33: the page a /callback request is answered with depends on its error parameter
\* alone: 200 exactly when it is empty, 400 exactly when it is not, whatever its code
\* and state are and whatever login makes of the result or has returned already.
C33_PageFollowsErrorOnly ==
    /\ \A i \in 1..Len(reqs) :
          (reqs[i].phase = "done" /\ reqs[i].page # 0) =>
              /\ reqs[i].page = 200 <=> reqs[i].q.Error = ""
              /\ reqs[i].page = 400 <=> reqs[i].q.Error # ""
    /\ \A q \in Requests(ops) :
          Render(q, TRUE) = IF q.Error = "" THEN 200 ELSE 400

\* a login that failed on the state, on the code or on the timeout, whose browser got
\* the success page
AnsweredSuccessButFailed(err) ==
    /\ pc = "returned"
    /\ ret.op = "login"
    /\ ret.err = err
    /\ \E i \in 1..Len(reqs) : reqs[i].order = 1 /\ reqs[i].page = 200

C33_Witness ==
    /\ AnsweredSuccessButFailed("failed to receive callback")
    /\ hist.waited = CallbackTimeout
    /\ hist.exchange = 0
    /\ tokens[cfgSite] = hist.before.tokens

\* the failures of runAuthLogin that come after the client was registered and saved
LateLoginFailures ==
    {"failed to receive callback", "OAuth error", "invalid callback",
     "failed to exchange code", "failed to save tokens"}

\* C34: a login that fails after it registered a client (callback timeout, provider
\* error, CSRF mismatch, code-exchange failure, token-save failure) leaves the newly
\* registered ClientCredentials stored and the stored TokenSet of the site as it was;
\* a login that finds stored credentials reuses them and does not register
C34_FailedLoginKeepsRegistration ==
    /\ (pc = "returned" /\ hist.op = "login" /\ ret.err \in LateLoginFailures) =>
          /\ tokens[cfgSite] = hist.before.tokens
          /\ creds[cfgSite] # Nil
          /\ creds[cfgSite] = lg.creds
          /\ hist.register > 0 =>
                /\ hist.before.creds = Nil
                /\ hist.savedCreds
                /\ creds[cfgSite] = Register(lg.redirectURI, cfgSite)
                /\ ~NeedsRegistration(creds[cfgSite])
    /\ (hist.op = "login" /\ hist.before # Nil /\ hist.before.creds # Nil) =>
          /\ hist.register = 0
          /\ creds[cfgSite] = hist.before.creds
          /\ pc \in {"registered", "waiting", "exchanging"} =>
                lg.creds = hist.before.creds

\* the second invocation is a login that found the credentials which the first, failed
\* login had registered, and completed without registering
C34_Witness ==
    /\ ops = 2
    /\ pc = "returned"
    /\ hist.op = "login"
    /\ ret.err = NoError
    /\ hist.before.creds # Nil
    /\ hist.before.creds.ClientID = 1
    /\ hist.before.tokens = Nil
    /\ hist.register = 0
    /\ lg.creds = hist.before.creds
    /\ tokens[cfgSite] # Nil

\* a login registered a client and then failed at the code exchange
C34_FailedAfterRegistering ==
    /\ pc = "returned"
    /\ hist.op = "login"
    /\ hist.register = 1
    /\ ret.err = "failed to exchange code"
    /\ creds[cfgSite] # Nil
    /\ tokens[cfgSite] = Nil

\* a step of runAuthStatus
StatusStep == pc = "idle" /\ hist'.op = "status"

\* C35: runAuthStatus only reads: it saves and deletes nothing, calls the provider
\* for no registration, exchange or refresh and starts no listener, so the store is
\* the same after the command as before it
C35_StatusReadOnly ==
    [][StatusStep =>
          /\ tokens' = tokens
          /\ creds' = creds
          /\ stale' = stale
          /\ provider' = provider
          /\ hist'.register = 0 /\ hist'.exchange = 0 /\ hist'.refresh = 0
          /\ ~hist'.savedTokens /\ ~hist'.savedCreds /\ ~hist'.started
          /\ srv' = "nil" /\ resultCh' = <<>> /\ reqs' = <<>>
          /\ pc' = "returned"]_vars

\* status reported an expired TokenSet that has a refresh token and left both the
\* TokenSet and the credentials in the store
C35_Witness ==
    /\ pc = "returned"
    /\ hist.op = "status"
    /\ ret.status = "expired"
    /\ ret.output.has_refresh
    /\ tokens[cfgSite] = hist.before.tokens
    /\ tokens[cfgSite] # Nil
    /\ creds[cfgSite] = hist.before.creds
    /\ hist.refresh = 0
    /\ srv = "nil"

\* what status would print for the TokenSet stored for cfg.Site at instant t
WouldReport(store, t) == StatusOutput(store[cfgSite], t, cfgSite).status

\* status has just reported the stored TokenSet tok with the given status
StatusSaid(tok, status) ==
    /\ pc = "returned"
    /\ hist.op = "status"
    /\ ret.err = NoError
    /\ tokens[cfgSite] = tok
    /\ ret.status = status

\* C36: for a stored TokenSet that is not replaced, expiry is monotone in time: what
\* a status call reports is what IsExpired says at that instant, and no step that
\* leaves the TokenSet stored (the clock advancing, a status, a failed login, refresh
\* or logout) takes it from "expired" back to "valid"; so once status has reported
\* "expired", every later status reports "expired" until the TokenSet is replaced
\* or removed
C36_ExpiredStaysExpired ==
    /\ [][(StatusStep /\ tokens[cfgSite] # Nil /\ ret'.err = NoError) =>
              /\ ret'.status = WouldReport(tokens, now)
              /\ ret'.status = "expired" <=> IsExpired(tokens[cfgSite])]_vars
    /\ [][(/\ tokens[cfgSite] # Nil
            /\ tokens'[cfgSite] = tokens[cfgSite]
            /\ WouldReport(tokens, now) = "expired") =>
              /\ now' >= now
              /\ WouldReport(tokens', now') = "expired"]_vars

\* a second status, after the clock advanced past the expiry instant of a TokenSet
\* that was inside the buffer from the start, reports it as expired again
C36_Witness ==
    /\ ops = 2
    /\ ticks = 1
    /\ StatusSaid(hist.before.tokens, "expired")
    /\ hist.before.tokens # Nil
    /\ IsExpiredAt(hist.before.tokens, 0)
    /\ now > hist.before.tokens.IssuedAt + hist.before.tokens.ExpiresIn

\* C37: generateRandomString(n) returns exactly n characters for every requested
\* length n >= 0 (checked for every n up to the longest length the program asks
\* for), and never more than n
C37_ExactLength ==
    /\ lg.state # <<>> => StrLen(lg.state) = StateLength
    /\ lg.verifier # <<>> => StrLen(lg.verifier) = VerifierLength
    /\ \A n \in 0..VerifierLength :
          /\ RandomStringLength(n) <= n
          /\ RandomStringLength(n) = n

====
